---- MODULE Spec2Model ----
(***************************************************************************)
(* Order-lifecycle orchestration and driver matching of GreenDrop.         *)
(*                                                                         *)
(* The document store (orders, drivers, users, activityLogs,               *)
(* notifications) is the state.  Every write of an order or user document  *)
(* queues a change event for that document; the Firestore triggers         *)
(* onOrderCreated, onOrderStatusChange and onUserWriteSyncDriver handle    *)
(* the events, at least once and in commit order per document.             *)
(* autoAssignDriver runs as a pass of three steps (query, driver write,    *)
(* order write) that interleave with everything else.                      *)
(***************************************************************************)
EXTENDS Integers, Sequences, FiniteSets, Bags, TLC

\* ------------------------------------------------------------------ bounds
MaxOrderWrites == 1   \* order updates made by collaborators outside the core
MaxUserWrites  == 1   \* user-record writes
MaxMatchCalls  == 1   \* autoAssignDriver invocations per order
MaxRedeliveries == 1  \* change events the dispatcher delivers a second time
MaxFailures    == 1   \* store calls that fail
MaxPending     == 3   \* change events queued per document
MaxClock       == 32  \* minutes the clock runs
MaxFleet       == 21  \* driver records counted by a scan
MaxDelivered   == 44  \* delivered orders counted by a scan
MaxSampled     == 8   \* delivered orders read by a metrics run
MaxInFlight    == 1   \* log requests awaiting their response

\* ------------------------------------------------------------- identifiers
NULL == "null"
OrderIds  == {"o1", "o2"}
DriverIds == {"d1", "d2"}
Customer  == "c1"

Statuses == {"created", "paid", "confirmed", "shipped", "delivered", "cancelled"}
Terminal == {"delivered", "cancelled"}

NoDoc == [exists |-> FALSE]

\* Positions are kilometres along one road; 0 is the (lat 0, lng 0) default.
PickupKm(o) == IF o = "o1" THEN 100 ELSE 102

\* ------------------------------------------------------------------- state
VARIABLES
    orders,         \* orders/{orderId}
    drivers,        \* drivers/{driverId}
    users,          \* users/{userId}
    activityLogs,   \* bag of activityLogs documents
    notifications,  \* bag of notifications documents
    orderEvents,    \* per order: queue of change events to deliver
    userEvents,     \* per user: queue of change events to deliver
    matcher,        \* per order: position of the autoAssignDriver pass
    matchCalls,     \* per order: autoAssignDriver invocations so far
    orderWrites,    \* collaborator order updates so far
    userWrites,     \* user writes so far
    redeliveries,   \* repeated deliveries so far
    failures,       \* failed store calls so far
    last,           \* the operation that made the last step, and its outcome
    now,            \* the clock, in minutes
    disputes,       \* number of open disputes
    verifications,  \* number of pending verifications
    changedAt,      \* when the inputs of the health rules last changed
    alertHistory,   \* bag of alertHistory documents
    emitted,        \* bag of the calls made to the webhook and to the push service
    lastRun,        \* the last healthCheck run and its outcome
    ranked,         \* the last findBestDrivers call of a caller and its result
    driverWrites,   \* the writes the last onUserWriteSyncDriver invocation issued
    computed,       \* the last rule or metric evaluated on counts, with its inputs
    metricsRun,     \* the last pushMetrics run: its pushes and how it ended
    scans,          \* per healthCheck invocation in flight: what its scan found
    logging         \* the mobile LoggingService: its buffer and its requests

healthVars == <<now, disputes, verifications, changedAt, alertHistory, emitted, lastRun>>

vars == <<orders, drivers, users, activityLogs, notifications, orderEvents,
          userEvents, matcher, matchCalls, orderWrites, userWrites,
          redeliveries, failures, last, healthVars, ranked, driverWrites, computed, metricsRun, scans, logging>>

store == [orders |-> orders, drivers |-> drivers,
          activityLogs |-> activityLogs, notifications |-> notifications]

\* ------------------------------------------------------------ batch writes
SetDoc(coll, data) == [op |-> "set", coll |-> coll, id |-> NULL, data |-> data]
UpdateDoc(coll, id, data) == [op |-> "update", coll |-> coll, id |-> id, data |-> data]

\* batch.update fails the commit when the document does not exist;
\* batch.set on a fresh auto-id reference always applies.
CanApply(s, w) ==
    IF w.op = "update"
    THEN IF w.coll = "drivers" THEN w.id \in DOMAIN s.drivers /\ s.drivers[w.id].exists
         ELSE w.id \in DOMAIN s.orders /\ s.orders[w.id].exists
    ELSE TRUE

\* Merge of the patched fields into a document.
Patch(doc, data) ==
    [f \in DOMAIN doc |-> IF f \in DOMAIN data THEN data[f] ELSE doc[f]]

ApplyWrite(s, w) ==
    IF w.op = "set"
    THEN IF w.coll = "activityLogs"
         THEN [s EXCEPT !.activityLogs = @ (+) SetToBag({w.data})]
         ELSE [s EXCEPT !.notifications = @ (+) SetToBag({w.data})]
    ELSE IF w.coll = "drivers"
         THEN [s EXCEPT !.drivers[w.id] = Patch(@, w.data)]
         ELSE [s EXCEPT !.orders[w.id] = Patch(@, w.data)]

RECURSIVE ApplyAll(_, _)
ApplyAll(s, batch) ==
    IF batch = <<>> THEN s ELSE ApplyAll(ApplyWrite(s, Head(batch)), Tail(batch))

\* Writes of a batch applied one after the other until the first that fails.
RECURSIVE ApplyUntilFailure(_, _)
ApplyUntilFailure(s, batch) ==
    IF batch = <<>> \/ ~CanApply(s, Head(batch)) THEN s
    ELSE ApplyUntilFailure(ApplyWrite(s, Head(batch)), Tail(batch))

CommitPartially(s, batch, reachable) ==
    IF reachable /\ \A i \in 1..Len(batch) : CanApply(s, batch[i])
    THEN [ok |-> TRUE, store |-> ApplyAll(s, batch)]
    ELSE [ok |-> FALSE, store |-> ApplyUntilFailure(s, batch)]

\* batch.commit(): every write applies or none does; `reachable` is whether
\* the store accepts the commit at all.
CommitBatch(s, batch, reachable) ==
    IF reachable /\ \A i \in 1..Len(batch) : CanApply(s, batch[i])
    THEN [ok |-> TRUE, store |-> ApplyAll(s, batch)]
    ELSE [ok |-> FALSE, store |-> s]

\* --------------------------------------------------------- onOrderCreated
\* A timeline field is absent ({}) or holds one list of entries, named by
\* their titles.
NoTimeline == {}
Timelines == {NoTimeline, {<<>>}, {<<"Existing">>}}
InitialTimeline == {<<"Order created">>}

\* the timeline is rewritten for every created order
TimelineAlwaysInitialised(timeline) == TRUE

\* !order.timeline || order.timeline.length === 0
TimelineMissing(timeline) ==
    timeline = NoTimeline \/ \E entries \in timeline : Len(entries) = 0

OrderCreatedBatch(orderId, order) ==
    <<SetDoc("activityLogs",
             [entityId |-> orderId, type |-> "order_created",
              oldStatus |-> NULL, newStatus |-> order.status, driverId |-> NULL])>>
    \o (IF TimelineMissing(order.timeline)
        THEN <<UpdateDoc("orders", orderId, [timeline |-> InitialTimeline])>>
        ELSE <<>>)
    \o <<SetDoc("notifications",
                [target |-> "admin", type |-> "info",
                 title |-> "Nouvelle commande", status |-> order.status,
                 orderId |-> orderId])>>

\* ----------------------------------------------------- onOrderStatusChange
StatusUnchangedOrSameDoc(before, after) == before = after

StatusUnchanged(before, after) == before.status = after.status

ReleaseKeepsStatus == [isAvailable |-> TRUE, currentOrderId |-> NULL]

ReleasePatch == [isAvailable |-> TRUE, currentOrderId |-> NULL, status |-> "online"]

\* 1. the activity-log entry
StatusLogOfNewStatus(orderId, before, after) ==
    [entityId |-> orderId, type |-> "order_updated",
     oldStatus |-> after.status, newStatus |-> after.status,
     driverId |-> after.driverId]

StatusLogEntry(orderId, before, after) ==
    [entityId |-> orderId, type |-> "order_updated",
     oldStatus |-> before.status, newStatus |-> after.status,
     driverId |-> after.driverId]

\* 3. and 4. the admin notifications
AdminNotificationsOnAnyEnd(orderId, after) ==
    IF after.status \in {"shipped"} \cup Terminal
    THEN <<SetDoc("notifications",
                  [target |-> "admin", type |-> "success",
                   title |-> "Commande livree", status |-> after.status,
                   orderId |-> orderId])>>
    ELSE <<>>

AdminNotifications(orderId, after) ==
    (IF after.status = "cancelled"
     THEN <<SetDoc("notifications",
                   [target |-> "admin", type |-> "warning",
                    title |-> "Commande annulee", status |-> after.status,
                    orderId |-> orderId])>>
     ELSE <<>>)
    \o (IF after.status = "delivered"
        THEN <<SetDoc("notifications",
                      [target |-> "admin", type |-> "success",
                       title |-> "Commande livree", status |-> after.status,
                       orderId |-> orderId])>>
        ELSE <<>>)

\* 6. the order has just been given to a driver
AssignedOnShipped(before, after) ==
    after.status = "shipped" /\ after.driverId # NULL

NewlyAssigned(before, after) ==
    after.status = "shipped" /\ after.driverId # NULL /\ before.driverId = NULL

ReleasesOnShippedToo(after) ==
    after.status \in Terminal \cup {"shipped"} /\ after.driverId # NULL

\* 5. the order is completed or cancelled and carries a driver
ReleasesDriver(after) == after.status \in Terminal /\ after.driverId # NULL

StatusChangeBatch(orderId, before, after) ==
    <<SetDoc("activityLogs", StatusLogEntry(orderId, before, after)),
      SetDoc("notifications",
             [target |-> after.userId, type |-> "order_update",
              title |-> "Order status", status |-> after.status,
              orderId |-> orderId])>>
    \o AdminNotifications(orderId, after)
    \o (IF ReleasesDriver(after)
        THEN <<UpdateDoc("drivers", after.driverId, ReleasePatch),
               SetDoc("notifications",
                      [target |-> after.driverId, type |-> "delivery_update",
                       title |-> "Delivery Completed", status |-> after.status,
                       orderId |-> orderId])>>
        ELSE <<>>)
    \o (IF NewlyAssigned(before, after)
        THEN <<SetDoc("notifications",
                      [target |-> after.driverId, type |-> "delivery_assignment",
                       title |-> "New Delivery Assignment", status |-> after.status,
                       orderId |-> orderId])>>
        ELSE <<>>)

\* ------------------------------------------------------------ change feed
\* What one step spends of the redelivery and failure budgets.
Spend(redeliver, reachable) ==
    /\ redeliver => redeliveries < MaxRedeliveries
    /\ ~reachable => failures < MaxFailures
    /\ redeliveries' = IF redeliver THEN redeliveries + 1 ELSE redeliveries
    /\ failures' = IF reachable THEN failures ELSE failures + 1

ChangeEvent(before, after) ==
    [kind |-> IF before.exists THEN "update" ELSE "create",
     before |-> before, after |-> after, n |-> 0]

\* The queue after one delivery of its head: the dispatcher delivers the event
\* again (at-least-once, or its retry of a failed invocation) or is done with it.
AfterDelivery(q, redeliver) ==
    IF redeliver THEN <<[Head(q) EXCEPT !.n = @ + 1]>> \o Tail(q) ELSE Tail(q)

\* Every order document a commit changed queues a change event.
QueueOrderEvents(queues, old, new) ==
    [o \in OrderIds |->
        IF old[o] # new[o] THEN Append(queues[o], ChangeEvent(old[o], new[o]))
        ELSE queues[o]]

Outcome(op, id, ok, before, after, n, driver) ==
    [op |-> op, id |-> id, ok |-> ok, before |-> before, after |-> after,
     n |-> n, driver |-> driver]

\* ----------------------------------------------- writes from collaborators
\* An order is created (checkout): status created, no driver.
CreateOrder(o) ==
    /\ ~orders[o].exists
    /\ \E timeline \in Timelines :
         LET doc == [exists |-> TRUE, status |-> "created", driverId |-> NULL,
                     timeline |-> timeline, userId |-> Customer]
         IN /\ orders' = [orders EXCEPT ![o] = doc]
            /\ orderEvents' = [orderEvents EXCEPT ![o] = Append(@, ChangeEvent(NoDoc, doc))]
            /\ last' = Outcome("createOrder", o, TRUE, NoDoc, doc, 0, NULL)
    /\ UNCHANGED <<healthVars, ranked, driverWrites, computed, metricsRun, scans, logging>>
    /\ UNCHANGED <<drivers, users, activityLogs, notifications, userEvents,
                   matcher, matchCalls, orderWrites, userWrites, redeliveries, failures>>

\* A collaborator (payment webhook, admin console, driver app) rewrites the
\* status and/or the driver id of an order; the store accepts any value.
UpdateOrder(o, budget) ==
    /\ orders[o].exists
    /\ orderWrites < budget
    /\ Len(orderEvents[o]) < MaxPending
    /\ \E status \in Statuses, driverId \in DriverIds \cup {NULL} :
         LET doc == [orders[o] EXCEPT !.status = status, !.driverId = driverId]
         IN /\ doc # orders[o]
            /\ orders' = [orders EXCEPT ![o] = doc]
            /\ orderEvents' = [orderEvents EXCEPT ![o] = Append(@, ChangeEvent(orders[o], doc))]
            /\ last' = Outcome("updateOrder", o, TRUE, orders[o], doc, 0, NULL)
    /\ orderWrites' = orderWrites + 1
    /\ UNCHANGED <<healthVars, ranked, driverWrites, computed, metricsRun, scans, logging>>
    /\ UNCHANGED <<drivers, users, activityLogs, notifications, userEvents,
                   matcher, matchCalls, userWrites, redeliveries, failures>>

\* A user profile; "" is a field that is empty or missing.
Profile(role, name, email, phone) ==
    [exists |-> TRUE, role |-> role, name |-> name, email |-> email, phone |-> phone]

\* The user record is deleted or its role is rewritten.
RoleDocs == {NoDoc, Profile("driver", "n1", "e1", "p1"), Profile("user", "n1", "e1", "p1")}

\* The user record is deleted or rewritten, role and contact fields.
UserDocs ==
    {NoDoc} \cup {Profile(role, name, email, phone) :
                     role \in {"driver", "user"}, name \in {"", "n1", "n2"},
                     email \in {"e1", "e2"}, phone \in {"", "p1"}}

\* A user record is created, changed or deleted.
UserWrite(u, docs) ==
    /\ userWrites < MaxUserWrites
    /\ Len(userEvents[u]) < MaxPending
    /\ \E doc \in docs :
         /\ doc # users[u]
         /\ users' = [users EXCEPT ![u] = doc]
         /\ userEvents' = [userEvents EXCEPT ![u] = Append(@, ChangeEvent(users[u], doc))]
         /\ last' = Outcome("userWrite", u, TRUE, users[u], doc, 0, NULL)
    /\ userWrites' = userWrites + 1
    /\ UNCHANGED <<healthVars, ranked, driverWrites, computed, metricsRun, scans, logging>>
    /\ UNCHANGED <<orders, drivers, activityLogs, notifications, orderEvents,
                   matcher, matchCalls, orderWrites, redeliveries, failures>>

\* ---------------------------------------------------------------- triggers
\* What a trigger's commit leaves in the store and in the order's queue.
Committed(o, res, rest) ==
    /\ orders' = res.store.orders
    /\ drivers' = res.store.drivers
    /\ activityLogs' = res.store.activityLogs
    /\ notifications' = res.store.notifications
    /\ orderEvents' = QueueOrderEvents([orderEvents EXCEPT ![o] = rest],
                                       orders, res.store.orders)

onOrderCreated(o) ==
    /\ orderEvents[o] # <<>>
    /\ Head(orderEvents[o]).kind = "create"
    /\ \E reachable \in BOOLEAN, redeliver \in BOOLEAN :
         LET ev == Head(orderEvents[o])
             res == CommitBatch(store, OrderCreatedBatch(o, ev.after), reachable)
             rest == AfterDelivery(orderEvents[o], redeliver)
         IN /\ Spend(redeliver, reachable)
            /\ Len(rest) < MaxPending
            /\ Committed(o, res, rest)
            /\ last' = Outcome("onOrderCreated", o, res.ok, ev.before, ev.after, ev.n, NULL)
    /\ UNCHANGED <<healthVars, ranked, driverWrites, computed, metricsRun, scans, logging>>
    /\ UNCHANGED <<users, userEvents, matcher, matchCalls, orderWrites, userWrites>>

onOrderStatusChange(o) ==
    /\ orderEvents[o] # <<>>
    /\ Head(orderEvents[o]).kind = "update"
    /\ \E reachable \in BOOLEAN, redeliver \in BOOLEAN :
         LET ev == Head(orderEvents[o])
             rest == AfterDelivery(orderEvents[o], redeliver)
         IN /\ Spend(redeliver, reachable)
            /\ IF StatusUnchanged(ev.before, ev.after)
               THEN /\ reachable
                    /\ orderEvents' = [orderEvents EXCEPT ![o] = rest]
                    /\ last' = Outcome("onOrderStatusChange", o, TRUE,
                                       ev.before, ev.after, ev.n, NULL)
                    /\ UNCHANGED <<orders, drivers, activityLogs, notifications>>
               ELSE LET res == CommitBatch(store,
                                   StatusChangeBatch(o, ev.before, ev.after), reachable)
                    IN /\ Committed(o, res, rest)
                       /\ last' = Outcome("onOrderStatusChange", o, res.ok,
                                          ev.before, ev.after, ev.n, ev.after.driverId)
    /\ UNCHANGED <<healthVars, ranked, driverWrites, computed, metricsRun, scans, logging>>
    /\ UNCHANGED <<users, userEvents, matcher, matchCalls, orderWrites, userWrites>>

\* ---------------------------------------------------- onUserWriteSyncDriver
Role(doc) == IF doc.exists THEN doc.role ELSE NULL

OfflinePatchResettingStats ==
    [status |-> "offline", isAvailable |-> FALSE, rating10 |-> 50,
     completedDeliveries |-> 0]

OfflinePatch == [status |-> "offline", isAvailable |-> FALSE]

DeactivatesWhoeverLeaves(before, after) ==
    ~after.exists \/ Role(after) # "driver"

\* The user was a driver and is deleted, or is a driver no longer.
Deactivates(before, after) ==
    Role(before) = "driver" /\ (~after.exists \/ Role(after) # "driver")

NewDriverDocOnline(after) ==
    [exists |-> TRUE, name |-> after.name, email |-> after.email,
     phone |-> after.phone, status |-> "online", vehicleType |-> "bike",
     isAvailable |-> TRUE, currentOrderId |-> NULL, location |-> <<0>>,
     rating10 |-> 50, completedDeliveries |-> 0, lastSeenAge |-> 0]

\* The driver document created for a user who has the driver role.
NewDriverDoc(after) ==
    [exists |-> TRUE, name |-> after.name, email |-> after.email,
     phone |-> after.phone, status |-> "offline", vehicleType |-> "bike",
     isAvailable |-> FALSE, currentOrderId |-> NULL, location |-> <<0>>,
     rating10 |-> 50, completedDeliveries |-> 0, lastSeenAge |-> 0]

ProfileFields == {"name", "email", "phone"}

AllProfileFields(after, driver) == [f \in ProfileFields |-> after[f]]

\* updates: the profile fields that are set and differ from the driver's.
ProfileUpdates(after, driver) ==
    [f \in {g \in ProfileFields : after[g] # "" /\ after[g] # driver[g]} |-> after[f]]

\* The write the handler issues for (before, after) of the user, if any.
SyncWrites(driver, before, after) ==
    IF Deactivates(before, after)
    THEN IF driver.exists THEN <<[op |-> "update", data |-> OfflinePatch]>> ELSE <<>>
    ELSE IF Role(after) # "driver" THEN <<>>
    ELSE IF ~driver.exists THEN <<[op |-> "set", data |-> NewDriverDoc(after)]>>
    ELSE IF DOMAIN ProfileUpdates(after, driver) # {}
         THEN <<[op |-> "update", data |-> ProfileUpdates(after, driver)]>>
         ELSE <<>>

\* The driver record once the writes are applied.
SyncedDriver(driver, before, after) ==
    LET ws == SyncWrites(driver, before, after)
    IN IF ws = <<>> THEN driver
       ELSE IF ws[1].op = "set" THEN ws[1].data
       ELSE Patch(driver, ws[1].data)

\* The create and sync writes are inside try/catch, whose catch returns null;
\* the deactivating update is outside it.
ErrorsSwallowed(before, after) ==
    ~Deactivates(before, after) /\ Role(after) = "driver"

onUserWriteSyncDriver(u) ==
    /\ userEvents[u] # <<>>
    /\ \E reachable \in BOOLEAN, redeliver \in BOOLEAN :
         LET ev == Head(userEvents[u])
             ws == SyncWrites(drivers[u], ev.before, ev.after)
             synced == SyncedDriver(drivers[u], ev.before, ev.after)
         IN /\ Spend(redeliver, reachable)
            /\ (ws = <<>>) => reachable
            /\ drivers' = [drivers EXCEPT ![u] = IF reachable THEN synced ELSE @]
            /\ driverWrites' = [i \in 1..Len(ws) |->
                                   [op |-> ws[i].op, data |-> ws[i].data,
                                    applied |-> reachable]]
            /\ userEvents' = [userEvents EXCEPT ![u] = AfterDelivery(@, redeliver)]
            /\ last' = Outcome("onUserWriteSyncDriver", u,
                               reachable \/ ErrorsSwallowed(ev.before, ev.after),
                               ev.before, ev.after, ev.n, u)
    /\ UNCHANGED <<orders, users, activityLogs, notifications, orderEvents,
                   matcher, matchCalls, orderWrites, userWrites>>
    /\ UNCHANGED <<healthVars, ranked, computed, metricsRun, scans, logging>>

\* ------------------------------------------------------------- GeoScorer
MAX_RADIUS_KM == 10

\* Distance between two positions, in whole kilometres.
haversineDistance(a, b) == IF a >= b THEN a - b ELSE b - a

Min(a, b) == IF a <= b THEN a ELSE b
Max(a, b) == IF a >= b THEN a ELSE b

\* Composite score in 1/10000: distance 0.50, rating 0.20, experience 0.15,
\* recency 0.15 (1 up to 5 minutes, linear down to 0 at 30 minutes).
scoreCandidate(distanceKm, driver) ==
    500 * Max(0, MAX_RADIUS_KM - distanceKm)
    + 40 * driver.rating10
    + 15 * Min(100, driver.completedDeliveries)
    + (IF driver.lastSeenAge <= 5 THEN 1500
       ELSE IF driver.lastSeenAge >= 30 THEN 0
       ELSE 60 * (30 - driver.lastSeenAge))

\* ----------------------------------------------------------- DriverMatcher
\* The order in which the drivers query returns the documents.
DriverOrder == <<"d1", "d2", "d3">>

QueryOrder(drvs) == SelectSeq(DriverOrder, LAMBDA d : d \in DOMAIN drvs)

\* An equal score goes ahead of the candidates already placed.
RECURSIVE InsertBeforeEqual(_, _)
InsertBeforeEqual(sorted, c) ==
    IF sorted = <<>> THEN <<c>>
    ELSE IF Head(sorted).score > c.score
         THEN <<Head(sorted)>> \o InsertBeforeEqual(Tail(sorted), c)
         ELSE <<c>> \o sorted

RECURSIVE InsertByScore(_, _)
InsertByScore(sorted, c) ==
    IF sorted = <<>> THEN <<c>>
    ELSE IF Head(sorted).score >= c.score
         THEN <<Head(sorted)>> \o InsertByScore(Tail(sorted), c)
         ELSE <<c>> \o sorted

RECURSIVE SortByScore(_)
SortByScore(cs) ==
    IF cs = <<>> THEN <<>>
    ELSE InsertByScore(SortByScore(SubSeq(cs, 1, Len(cs) - 1)), cs[Len(cs)])

EligibleWhateverItHolds(d, pickup) ==
    /\ d.exists
    /\ d.status = "online"
    /\ d.location # <<>>
    /\ haversineDistance(pickup, d.location[1]) <= MAX_RADIUS_KM

\* on line, located, within the radius, without an order
Eligible(d, pickup) ==
    /\ d.exists
    /\ d.status = "online"
    /\ d.location # <<>>
    /\ haversineDistance(pickup, d.location[1]) <= MAX_RADIUS_KM
    /\ d.currentOrderId = NULL

RECURSIVE Candidates(_, _, _)
Candidates(ids, drvs, pickup) ==
    IF ids = <<>> THEN <<>>
    ELSE LET d == drvs[Head(ids)]
             rest == Candidates(Tail(ids), drvs, pickup)
         IN IF Eligible(d, pickup)
            THEN <<[driver |-> Head(ids),
                    distance |-> haversineDistance(pickup, d.location[1]),
                    score |-> scoreCandidate(haversineDistance(pickup, d.location[1]), d)]>>
                 \o rest
            ELSE rest

findBestDrivers(drvs, pickup, maxResults) ==
    LET sorted == SortByScore(Candidates(QueryOrder(drvs), drvs, pickup))
    IN SubSeq(sorted, 1, Min(maxResults, Len(sorted)))

DefaultMaxResults == 5

\* drivers.assignDriverToOrder: the driver-side claim.
ClaimPatch(orderId) ==
    [currentOrderId |-> orderId, status |-> "busy", isAvailable |-> FALSE]

Idle == [pc |-> "idle", driver |-> NULL]

LastCandidate(found) == found[Len(found)].driver

\* the candidate autoAssignDriver assigns
TopCandidate(found) == found[1].driver

NoRanking == [pickup |-> 0, maxResults |-> 0, result |-> <<>>]

NothingComputed == [what |-> "nothing", args |-> <<>>, value |-> {}]

\* The LoggingService before any event; entries are counted, not told apart.
NoLogging == [buffer |-> 0, inFlight |-> <<>>, held |-> 0, sent |-> 0]

\* healthCheck invocations that may run at the same time
RunIds == {"r1", "r2"}

NoScan == [pc |-> "idle", alerts |-> <<>>, newAlerts |-> <<>>]

NoMetricsRun == [at |-> -1, configured |-> FALSE, read |-> FALSE, counts |-> <<>>,
                 pushes |-> <<>>, response |-> "none", ok |-> TRUE]

\* A caller asks for the ranking around a pickup point.
FindBestDrivers(pickup, maxResults) ==
    /\ ranked' = [pickup |-> pickup, maxResults |-> maxResults,
                  result |-> findBestDrivers(drivers, pickup, maxResults)]
    /\ last' = Outcome("findBestDrivers", NULL, TRUE, NoDoc, NoDoc, maxResults, NULL)
    /\ UNCHANGED <<orders, drivers, users, activityLogs, notifications, orderEvents,
                   userEvents, matcher, matchCalls, orderWrites, userWrites,
                   redeliveries, failures, healthVars, driverWrites, computed, metricsRun, scans, logging>>

\* autoAssignDriver, step 1: the candidates query.  Its caller asks for a
\* driver for an order that is live and has none.
autoAssignQuery(o) ==
    /\ orders[o].exists
    /\ orders[o].status \notin Terminal
    /\ orders[o].driverId = NULL
    /\ matcher[o].pc = "idle"
    /\ matchCalls[o] < MaxMatchCalls
    /\ matchCalls' = [matchCalls EXCEPT ![o] = @ + 1]
    /\ LET found == findBestDrivers(drivers, PickupKm(o), DefaultMaxResults)
       IN IF found = <<>>
          THEN /\ matcher' = matcher
               /\ last' = Outcome("autoAssignQuery", o, TRUE, NoDoc, NoDoc, 0, NULL)
          ELSE /\ matcher' = [matcher EXCEPT ![o] = [pc |-> "claim", driver |-> TopCandidate(found)]]
               /\ last' = Outcome("autoAssignQuery", o, TRUE, NoDoc, NoDoc, 0, TopCandidate(found))
    /\ UNCHANGED <<healthVars, ranked, driverWrites, computed, metricsRun, scans, logging>>
    /\ UNCHANGED <<orders, drivers, users, activityLogs, notifications, orderEvents,
                   userEvents, orderWrites, userWrites, redeliveries, failures>>

\* step 2: the driver write; it is not conditional on what the driver holds now.
autoAssignClaim(o) ==
    /\ matcher[o].pc = "claim"
    /\ \E reachable \in BOOLEAN :
         LET d == matcher[o].driver
         IN /\ Spend(FALSE, reachable)
            /\ drivers' = [drivers EXCEPT ![d] =
                              IF reachable THEN Patch(@, ClaimPatch(o)) ELSE @]
            /\ matcher' = [matcher EXCEPT ![o] =
                              IF reachable THEN [pc |-> "order", driver |-> d] ELSE Idle]
            /\ last' = Outcome("autoAssignClaim", o, reachable, NoDoc, NoDoc, 0, d)
    /\ UNCHANGED <<healthVars, ranked, driverWrites, computed, metricsRun, scans, logging>>
    /\ UNCHANGED <<orders, users, activityLogs, notifications, orderEvents, userEvents,
                   matchCalls, orderWrites, userWrites>>

\* What a failed order-side write leaves of the driver-side claim.
ClaimLeftDangling(driver) == driver

CompensateClaim(driver) == Patch(driver, ReleasePatch)

\* step 3: the order write; its failure compensates the driver-side claim.
autoAssignOrder(o) ==
    /\ matcher[o].pc = "order"
    /\ Len(orderEvents[o]) < MaxPending
    /\ \E reachable \in BOOLEAN :
         LET d == matcher[o].driver
             doc == [orders[o] EXCEPT !.driverId = d]
         IN /\ Spend(FALSE, reachable)
            /\ IF reachable
               THEN /\ orders' = [orders EXCEPT ![o] = doc]
                    /\ orderEvents' = QueueOrderEvents(orderEvents, orders, orders')
                    /\ drivers' = drivers
               ELSE /\ drivers' = [drivers EXCEPT ![d] = CompensateClaim(@)]
                    /\ UNCHANGED <<orders, orderEvents>>
            /\ last' = Outcome("autoAssignOrder", o, reachable, orders[o], doc, 0, d)
    /\ matcher' = [matcher EXCEPT ![o] = Idle]
    /\ UNCHANGED <<healthVars, ranked, driverWrites, computed, metricsRun, scans, logging>>
    /\ UNCHANGED <<users, activityLogs, notifications, userEvents, matchCalls,
                   orderWrites, userWrites>>

\* ------------------------------------------------------------ healthCheck
DISPUTES_THRESHOLD == 10
KYC_THRESHOLD == 20
UTILIZATION_THRESHOLD == 90
DEDUP_WINDOW_MIN == 30
MIN_DELIVERED_SAMPLE == 5
ON_TIME_THRESHOLD == 80

DisputeCounts == {DISPUTES_THRESHOLD, DISPUTES_THRESHOLD + 1}
VerificationCounts == {KYC_THRESHOLD, KYC_THRESHOLD + 1}

AlertIds == {"no-drivers-online", "driver-overload", "high-disputes", "kyc-backlog",
             "low-delivery-rate"}

Alert(id, severity) == [id |-> id, severity |-> severity]

CountDrivers(drvs, status) ==
    Cardinality({d \in DOMAIN drvs : drvs[d].exists /\ drvs[d].status = status})

\* Math.round(part / whole * 100) for whole > 0: the nearest integer, a half
\* going up.
RoundedPercent(part, whole) == (200 * part + whole) \div (2 * whole)

NoActiveDrivers(total, active) == active = 0

\* 1. no driver on line or busy while there are drivers
NoDriversOnline(total, active) == active = 0 /\ total > 0

\* 2. utilization above the threshold
DriverOverload(busy, active) ==
    active > 0 /\ RoundedPercent(busy, active) > UTILIZATION_THRESHOLD

\* 5. on-time rate of a large enough sample below the threshold
LowDeliveryRate(onTime, delivered) ==
    delivered > MIN_DELIVERED_SAMPLE
        /\ RoundedPercent(onTime, delivered) < ON_TIME_THRESHOLD

\* The rules on drivers, disputes, verifications and deliveries, in the order
\* of the scan, on the counts the scan makes.
RulesOnCounts(total, online, busy, openDisputes, pendingVerifs, onTime, delivered) ==
    (IF NoDriversOnline(total, online + busy)
     THEN <<Alert("no-drivers-online", "critical")>> ELSE <<>>)
    \o (IF DriverOverload(busy, online + busy)
        THEN <<Alert("driver-overload", "warning")>> ELSE <<>>)
    \o (IF openDisputes > DISPUTES_THRESHOLD
        THEN <<Alert("high-disputes", "critical")>> ELSE <<>>)
    \o (IF pendingVerifs > KYC_THRESHOLD
        THEN <<Alert("kyc-backlog", "warning")>> ELSE <<>>)
    \o (IF LowDeliveryRate(onTime, delivered)
        THEN <<Alert("low-delivery-rate", "warning")>> ELSE <<>>)

\* The scan of the store; the order documents carry neither deliveredAt nor
\* estimatedDelivery, so that none counts as on time.
EvaluateRules(drvs, ords, openDisputes, pendingVerifs) ==
    RulesOnCounts(Cardinality({d \in DOMAIN drvs : drvs[d].exists}),
                  CountDrivers(drvs, "online"), CountDrivers(drvs, "busy"),
                  openDisputes, pendingVerifs, 0,
                  Cardinality({o \in DOMAIN ords :
                                  ords[o].exists /\ ords[o].status = "delivered"}))

\* The identifiers of the alertHistory records with sentAt >= thirtyMinAgo.
RecentWithinAnHour(history, at) ==
    {h.alertId : h \in {r \in BagToSet(history) : r.sentAt >= at - 2 * DEDUP_WINDOW_MIN}}

recentAlertIds(history, at) ==
    {h.alertId : h \in {r \in BagToSet(history) : r.sentAt >= at - DEDUP_WINDOW_MIN}}

RECURSIVE Filter(_, _)
Filter(alerts, skip) ==
    IF alerts = <<>> THEN <<>>
    ELSE IF Head(alerts).id \in skip THEN Filter(Tail(alerts), skip)
    ELSE <<Head(alerts)>> \o Filter(Tail(alerts), skip)

Ids(alerts) == {alerts[i].id : i \in 1..Len(alerts)}

AlertBatchOfFirst(alerts, at) ==
    IF alerts = <<>> THEN <<>>
    ELSE <<SetDoc("notifications",
                  [target |-> "admin",
                   type |-> IF Head(alerts).severity = "critical" THEN "alert" ELSE "warning",
                   title |-> Head(alerts).id, status |-> NULL, orderId |-> NULL]),
           SetDoc("alertHistory", [alertId |-> Head(alerts).id, sentAt |-> at])>>

\* The batch of a run: per alert an admin notification and a history record.
RECURSIVE AlertBatch(_, _)
AlertBatch(alerts, at) ==
    IF alerts = <<>> THEN <<>>
    ELSE <<SetDoc("notifications",
                  [target |-> "admin",
                   type |-> IF Head(alerts).severity = "critical" THEN "alert" ELSE "warning",
                   title |-> Head(alerts).id, status |-> NULL, orderId |-> NULL]),
           SetDoc("alertHistory", [alertId |-> Head(alerts).id, sentAt |-> at])>>
         \o AlertBatch(Tail(alerts), at)

\* sendAdminPush: one message for all the alerts, headed by the first critical one.
RECURSIVE FirstCritical(_)
FirstCritical(alerts) ==
    IF alerts = <<>> THEN NULL
    ELSE IF Head(alerts).severity = "critical" THEN Head(alerts).id
    ELSE FirstCritical(Tail(alerts))

PushMessage(alerts, at) ==
    [channel |-> "push", ids |-> Ids(alerts), count |-> Len(alerts),
     headline |-> IF FirstCritical(alerts) # NULL THEN FirstCritical(alerts)
                  ELSE alerts[1].id,
     at |-> at]

WebhookCall(alerts, at) ==
    [channel |-> "webhook", ids |-> Ids(alerts), count |-> Len(alerts),
     headline |-> NULL, at |-> at]

\* What a run with surviving alerts does, given how its three calls end:
\* the webhook call, the batch commit, the push.
WebhookFailureAborts(webhook, reachable, push) ==
    [webhook |-> webhook = "sent",
     committed |-> reachable /\ webhook # "failed",
     pushed |-> reachable /\ webhook # "failed" /\ push = "sent"]

HealthRun(webhook, reachable, push) ==
    [webhook |-> webhook = "sent",
     committed |-> reachable,
     pushed |-> reachable /\ push = "sent"]

NoRun == [at |-> -1, alerts |-> {}, newAlerts |-> {}, webhook |-> "none",
          reachable |-> TRUE, committed |-> FALSE, push |-> "none"]

Failed(webhook, reachable, push) ==
    (IF webhook = "failed" THEN 1 ELSE 0) + (IF reachable THEN 0 ELSE 1)
    + (IF push = "failed" THEN 1 ELSE 0)

\* What a run does with the alerts of its scan and those that survived the
\* deduplication: nothing, or the webhook call, the batch, the push.
Deliver(alerts, newAlerts) ==
       IF newAlerts = <<>>
       THEN /\ lastRun' = [NoRun EXCEPT !.at = now, !.alerts = Ids(alerts)]
            /\ UNCHANGED <<notifications, alertHistory, emitted, failures>>
       ELSE \E webhook \in {"sent", "failed", "unconfigured"}, reachable \in BOOLEAN,
               push \in {"sent", "failed", "no-tokens", "none"} :
              LET run == HealthRun(webhook, reachable, push)
                  batch == AlertBatch(newAlerts, now)
              IN /\ (push = "none") = ~run.committed
                 /\ failures + Failed(webhook, reachable, push) <= MaxFailures
                 /\ failures' = failures + Failed(webhook, reachable, push)
                 /\ emitted' = emitted
                       (+) (IF run.webhook THEN SetToBag({WebhookCall(newAlerts, now)})
                            ELSE EmptyBag)
                       (+) (IF run.pushed THEN SetToBag({PushMessage(newAlerts, now)})
                            ELSE EmptyBag)
                 /\ IF run.committed
                    THEN /\ notifications' = notifications (+)
                              SetToBag({batch[i].data : i \in {j \in 1..Len(batch) :
                                            batch[j].coll = "notifications"}})
                         /\ alertHistory' = alertHistory (+)
                              SetToBag({batch[i].data : i \in {j \in 1..Len(batch) :
                                            batch[j].coll = "alertHistory"}})
                    ELSE UNCHANGED <<notifications, alertHistory>>
                 /\ lastRun' = [at |-> now, alerts |-> Ids(alerts),
                                newAlerts |-> Ids(newAlerts), webhook |-> webhook,
                                reachable |-> reachable,
                                committed |-> run.committed, push |-> push]

healthCheck ==
    LET alerts == EvaluateRules(drivers, orders, disputes, verifications)
    IN Deliver(alerts, Filter(alerts, recentAlertIds(alertHistory, now)))

\* One scheduled run, all of it; the schedule starts one run per tick.
HealthCheckRun ==
    /\ lastRun.at < now
    /\ healthCheck
    /\ last' = Outcome("healthCheck", NULL, lastRun'.committed, NoDoc, NoDoc, 0, NULL)
    /\ UNCHANGED <<orders, drivers, users, activityLogs, orderEvents, userEvents,
                   matcher, matchCalls, orderWrites, userWrites, redeliveries,
                   now, disputes, verifications, changedAt, ranked,
                   driverWrites, computed, metricsRun, scans, logging>>

\* The same run in its two parts, for invocations that overlap: the scan up
\* to the read of alertHistory, and what follows it.
healthCheckScan(r) ==
    /\ scans[r].pc = "idle"
    /\ LET alerts == EvaluateRules(drivers, orders, disputes, verifications)
           newAlerts == Filter(alerts, recentAlertIds(alertHistory, now))
       IN IF newAlerts = <<>>
          THEN /\ Deliver(alerts, newAlerts)
               /\ scans' = scans
          ELSE /\ scans' = [scans EXCEPT ![r] = [pc |-> "deliver", alerts |-> alerts,
                                                  newAlerts |-> newAlerts]]
               /\ UNCHANGED <<notifications, alertHistory, emitted, failures, lastRun>>
    /\ last' = Outcome("healthCheckScan", r, TRUE, NoDoc, NoDoc, 0, NULL)
    /\ UNCHANGED <<orders, drivers, users, activityLogs, orderEvents, userEvents,
                   matcher, matchCalls, orderWrites, userWrites, redeliveries,
                   now, disputes, verifications, changedAt, ranked,
                   driverWrites, computed, metricsRun, logging>>

healthCheckDeliver(r) ==
    /\ scans[r].pc = "deliver"
    /\ Deliver(scans[r].alerts, scans[r].newAlerts)
    /\ scans' = [scans EXCEPT ![r] = NoScan]
    /\ last' = Outcome("healthCheckDeliver", r, lastRun'.committed, NoDoc, NoDoc, 0, NULL)
    /\ UNCHANGED <<orders, drivers, users, activityLogs, orderEvents, userEvents,
                   matcher, matchCalls, orderWrites, userWrites, redeliveries,
                   now, disputes, verifications, changedAt, ranked,
                   driverWrites, computed, metricsRun, logging>>

\* Time passes.
Advance(dt) ==
    /\ now + dt <= MaxClock
    /\ now' = now + dt
    /\ last' = Outcome("advance", NULL, TRUE, NoDoc, NoDoc, dt, NULL)
    /\ UNCHANGED <<orders, drivers, users, activityLogs, notifications, orderEvents,
                   userEvents, matcher, matchCalls, orderWrites, userWrites,
                   redeliveries, failures,
                   disputes, verifications, changedAt, alertHistory, emitted, lastRun,
                   ranked, driverWrites, computed, metricsRun, scans, logging>>

\* Disputes are opened or closed, verifications filed or decided.
SetBacklog ==
    /\ \E d \in DisputeCounts, v \in VerificationCounts :
         /\ <<d, v>> # <<disputes, verifications>>
         /\ disputes' = d
         /\ verifications' = v
    /\ changedAt' = now
    /\ last' = Outcome("setBacklog", NULL, TRUE, NoDoc, NoDoc, 0, NULL)
    /\ UNCHANGED <<orders, drivers, users, activityLogs, notifications, orderEvents,
                   userEvents, matcher, matchCalls, orderWrites, userWrites,
                   redeliveries, failures, now, alertHistory, emitted, lastRun, ranked,
                   driverWrites, computed, metricsRun, scans, logging>>

\* ----------------------------------------------------------- specification
OnlineDriver(km, rating10, deliveries, age) ==
    [exists |-> TRUE, name |-> "n1", email |-> "e1", phone |-> "p1",
     status |-> "online", vehicleType |-> "bike", isAvailable |-> TRUE,
     currentOrderId |-> NULL, location |-> <<km>>, rating10 |-> rating10,
     completedDeliveries |-> deliveries, lastSeenAge |-> age]

\* Driver d1 is on line near the pickups; d2 is not a user yet.
Init ==
    /\ orders = [o \in OrderIds |-> NoDoc]
    /\ drivers = [d \in DriverIds |->
                    IF d = "d1" THEN OnlineDriver(101, 45, 50, 1) ELSE NoDoc]
    /\ users = [d \in DriverIds |->
                    IF d = "d1" THEN Profile("driver", "n1", "e1", "p1") ELSE NoDoc]
    /\ activityLogs = EmptyBag
    /\ notifications = EmptyBag
    /\ orderEvents = [o \in OrderIds |-> <<>>]
    /\ userEvents = [d \in DriverIds |-> <<>>]
    /\ matcher = [o \in OrderIds |-> Idle]
    /\ matchCalls = [o \in OrderIds |-> 0]
    /\ orderWrites = 0
    /\ userWrites = 0
    /\ redeliveries = 0
    /\ failures = 0
    /\ last = Outcome("init", NULL, TRUE, NoDoc, NoDoc, 0, NULL)
    /\ now = 0
    /\ disputes = DISPUTES_THRESHOLD
    /\ verifications = KYC_THRESHOLD
    /\ changedAt = 0
    /\ alertHistory = EmptyBag
    /\ emitted = EmptyBag
    /\ lastRun = NoRun
    /\ ranked = NoRanking
    /\ driverWrites = <<>>
    /\ computed = NothingComputed
    /\ metricsRun = NoMetricsRun
    /\ scans = [r \in RunIds |-> NoScan]
    /\ logging = NoLogging

\* The order triggers and one matching pass around a single order.
TriggerOrders == {"o1"}

Next ==
    \/ \E o \in TriggerOrders : CreateOrder(o)
    \/ \E o \in TriggerOrders : UpdateOrder(o, MaxOrderWrites)
    \/ \E o \in TriggerOrders : onOrderCreated(o)
    \/ \E o \in TriggerOrders : onOrderStatusChange(o)
    \/ \E o \in TriggerOrders : autoAssignQuery(o)
    \/ \E o \in TriggerOrders : autoAssignClaim(o)
    \/ \E o \in TriggerOrders : autoAssignOrder(o)

Spec == Init /\ [][Next]_vars

\* The same with one more collaborator write, so that an order that has reached
\* a terminal status can be rewritten once more.
NextReopen ==
    \/ \E o \in TriggerOrders : CreateOrder(o)
    \/ \E o \in TriggerOrders : UpdateOrder(o, MaxOrderWrites + 1)
    \/ \E o \in TriggerOrders : onOrderCreated(o)
    \/ \E o \in TriggerOrders : onOrderStatusChange(o)
    \/ \E o \in TriggerOrders : autoAssignQuery(o)
    \/ \E o \in TriggerOrders : autoAssignClaim(o)
    \/ \E o \in TriggerOrders : autoAssignOrder(o)

SpecReopen == Init /\ [][NextReopen]_vars

\* Orders are created and nothing else is done to them: the triggers alone,
\* which the dispatcher keeps running while a change event is pending.
NextCascade ==
    \/ \E o \in OrderIds : CreateOrder(o)
    \/ \E o \in OrderIds : onOrderCreated(o)
    \/ \E o \in OrderIds : onOrderStatusChange(o)

SpecCascade ==
    /\ Init
    /\ [][NextCascade]_vars
    /\ \A o \in OrderIds : WF_vars(onOrderCreated(o))
    /\ \A o \in OrderIds : WF_vars(onOrderStatusChange(o))

\* Matching passes of several orders running against each other and against
\* DriverProfileSync; no collaborator rewrites an order.
NextMatch ==
    \/ \E o \in OrderIds : CreateOrder(o)
    \/ \E u \in DriverIds : UserWrite(u, RoleDocs)
    \/ \E o \in OrderIds : onOrderCreated(o)
    \/ \E o \in OrderIds : onOrderStatusChange(o)
    \/ \E u \in DriverIds : onUserWriteSyncDriver(u)
    \/ \E o \in OrderIds : autoAssignQuery(o)
    \/ \E o \in OrderIds : autoAssignClaim(o)
    \/ \E o \in OrderIds : autoAssignOrder(o)

SpecMatch == Init /\ [][NextMatch]_vars


\* No event is pending and no trigger, matching pass or scan has run.
NothingHandledYet ==
    /\ activityLogs = EmptyBag
    /\ notifications = EmptyBag
    /\ orderEvents = [o \in OrderIds |-> <<>>]
    /\ userEvents = [d \in DriverIds |-> <<>>]
    /\ matcher = [o \in OrderIds |-> Idle]
    /\ matchCalls = [o \in OrderIds |-> 0]
    /\ orderWrites = 0
    /\ userWrites = 0
    /\ redeliveries = 0
    /\ failures = 0
    /\ last = Outcome("init", NULL, TRUE, NoDoc, NoDoc, 0, NULL)
    /\ now = 0
    /\ disputes = DISPUTES_THRESHOLD
    /\ verifications = KYC_THRESHOLD
    /\ changedAt = 0
    /\ alertHistory = EmptyBag
    /\ emitted = EmptyBag
    /\ lastRun = NoRun
    /\ ranked = NoRanking
    /\ driverWrites = <<>>
    /\ computed = NothingComputed
    /\ metricsRun = NoMetricsRun
    /\ scans = [r \in RunIds |-> NoScan]
    /\ logging = NoLogging

\* DriverMatcher on a pool of three drivers drawn from the documents below:
\* rankings around both pickup points and one matching pass for order o1.
PoolIds == {"d1", "d2", "d3"}

PoolDocs ==
    {NoDoc,
     OnlineDriver(101, 25, 50, 1),
     OnlineDriver(103, 50, 50, 1),
     OnlineDriver(110, 45, 50, 1),
     OnlineDriver(111, 45, 50, 1),
     OnlineDriver(101, 45, 50, 20),
     [OnlineDriver(101, 45, 50, 1) EXCEPT !.status = "offline", !.isAvailable = FALSE],
     [OnlineDriver(101, 45, 50, 1) EXCEPT !.currentOrderId = "o2"],
     [OnlineDriver(101, 45, 50, 1) EXCEPT !.location = <<>>]}

MaxResultsAsked == {1, 2, DefaultMaxResults}

InitRank ==
    /\ orders = [o \in OrderIds |->
                   IF o \in TriggerOrders
                   THEN [exists |-> TRUE, status |-> "created", driverId |-> NULL,
                         timeline |-> InitialTimeline, userId |-> Customer]
                   ELSE NoDoc]
    /\ drivers \in [PoolIds -> PoolDocs]
    /\ users = [d \in DriverIds |-> NoDoc]
    /\ NothingHandledYet

NextRank ==
    \/ \E o \in OrderIds, k \in MaxResultsAsked : FindBestDrivers(PickupKm(o), k)
    \/ \E o \in TriggerOrders : autoAssignQuery(o)
    \/ \E o \in TriggerOrders : autoAssignClaim(o)
    \/ \E o \in TriggerOrders : autoAssignOrder(o)

SpecRank == InitRank /\ [][NextRank]_vars

\* The order triggers alone, on an order that is yet to be created or is live,
\* with or without driver d1 on it.
LiveOrders ==
    {[exists |-> TRUE, status |-> s, driverId |-> d,
      timeline |-> InitialTimeline, userId |-> Customer] :
        s \in Statuses \ Terminal, d \in {NULL, "d1"}}

InitNotify ==
    /\ \E doc \in {NoDoc} \cup LiveOrders :
          /\ orders = [o \in OrderIds |-> IF o \in TriggerOrders THEN doc ELSE NoDoc]
          /\ drivers = [d \in DriverIds |->
                          IF d # "d1" THEN NoDoc
                          ELSE IF doc.exists /\ doc.driverId = "d1"
                               THEN Patch(OnlineDriver(101, 45, 50, 1), ClaimPatch("o1"))
                               ELSE OnlineDriver(101, 45, 50, 1)]
    /\ users = [d \in DriverIds |->
                    IF d = "d1" THEN Profile("driver", "n1", "e1", "p1") ELSE NoDoc]
    /\ NothingHandledYet

NextNotify ==
    \/ \E o \in TriggerOrders : CreateOrder(o)
    \/ \E o \in TriggerOrders : UpdateOrder(o, MaxOrderWrites)
    \/ \E o \in TriggerOrders : onOrderCreated(o)
    \/ \E o \in TriggerOrders : onOrderStatusChange(o)

SpecNotify == InitNotify /\ [][NextNotify]_vars

\* DriverProfileSync alone on one user, whose record and driver record are
\* drawn: absent, a driver, a plain user; absent, on line, claimed, deactivated.
SyncUsers == {"d1"}

InitSync ==
    /\ orders = [o \in OrderIds |-> NoDoc]
    /\ \E user \in RoleDocs,
          driver \in {NoDoc, OnlineDriver(101, 45, 50, 1),
                      Patch(OnlineDriver(101, 45, 50, 1), ClaimPatch("o1")),
                      Patch(OnlineDriver(101, 45, 50, 1), OfflinePatch)} :
          /\ users = [d \in DriverIds |-> IF d \in SyncUsers THEN user ELSE NoDoc]
          /\ drivers = [d \in DriverIds |-> IF d \in SyncUsers THEN driver ELSE NoDoc]
    /\ NothingHandledYet

NextSync ==
    \/ \E u \in SyncUsers : UserWrite(u, UserDocs)
    \/ \E u \in SyncUsers : onUserWriteSyncDriver(u)

SpecSync == InitSync /\ [][NextSync]_vars

\* Order o1 is on its way with driver d1 while order o2 waits for a driver:
\* o1 is rewritten, o2 is matched, the user record of d1 is rewritten.
ReleaseOrders == {"o1"}
WaitingOrders == {"o2"}

InitRelease ==
    /\ orders = [o \in OrderIds |->
                   [exists |-> TRUE,
                    status |-> IF o \in ReleaseOrders THEN "shipped" ELSE "paid",
                    driverId |-> IF o \in ReleaseOrders THEN "d1" ELSE NULL,
                    timeline |-> InitialTimeline, userId |-> Customer]]
    /\ drivers = [d \in DriverIds |->
                    IF d = "d1" THEN Patch(OnlineDriver(101, 45, 50, 1), ClaimPatch("o1"))
                    ELSE NoDoc]
    /\ users = [d \in DriverIds |->
                    IF d = "d1" THEN Profile("driver", "n1", "e1", "p1") ELSE NoDoc]
    /\ NothingHandledYet

NextRelease ==
    \/ \E o \in ReleaseOrders : UpdateOrder(o, MaxOrderWrites)
    \/ \E o \in OrderIds : onOrderStatusChange(o)
    \/ \E u \in SyncUsers : UserWrite(u, RoleDocs)
    \/ \E u \in SyncUsers : onUserWriteSyncDriver(u)
    \/ \E o \in WaitingOrders : autoAssignQuery(o)
    \/ \E o \in WaitingOrders : autoAssignClaim(o)
    \/ \E o \in WaitingOrders : autoAssignOrder(o)

SpecRelease == InitRelease /\ [][NextRelease]_vars

\* ------------------------------------------------------------ pushMetrics
NO_DELIVERY_RATE == 100

OnTimeRateZeroWhenNone(onTime, delivered) ==
    IF delivered > 0 THEN RoundedPercent(onTime, delivered) ELSE 0

\* the orders.on_time_rate sample
onTimeRate(onTime, delivered) ==
    IF delivered > 0 THEN RoundedPercent(onTime, delivered) ELSE NO_DELIVERY_RATE

\* The rules and the metric on the counts of a scan, the counts drawn.
ScanDrivers ==
    /\ \E total \in 0..MaxFleet, online \in 0..MaxFleet, busy \in 0..MaxFleet :
          /\ online + busy <= total
          /\ computed' = [what |-> "driverRules", args |-> <<total, online, busy>>,
                          value |-> Ids(RulesOnCounts(total, online, busy,
                                          DISPUTES_THRESHOLD, KYC_THRESHOLD, 0, 0))]
    /\ last' = Outcome("scanDrivers", NULL, TRUE, NoDoc, NoDoc, 0, NULL)
    /\ UNCHANGED <<orders, drivers, users, activityLogs, notifications, orderEvents,
                   userEvents, matcher, matchCalls, orderWrites, userWrites,
                   redeliveries, failures, healthVars, ranked, driverWrites,
                   metricsRun, scans, logging>>

ScanDeliveries ==
    /\ \E delivered \in 0..MaxDelivered, onTime \in 0..MaxDelivered :
          /\ onTime <= delivered
          /\ computed' = [what |-> "deliveryRule", args |-> <<onTime, delivered>>,
                          value |-> Ids(RulesOnCounts(1, 1, 0, DISPUTES_THRESHOLD,
                                          KYC_THRESHOLD, onTime, delivered))]
    /\ last' = Outcome("scanDeliveries", NULL, TRUE, NoDoc, NoDoc, 0, NULL)
    /\ UNCHANGED <<orders, drivers, users, activityLogs, notifications, orderEvents,
                   userEvents, matcher, matchCalls, orderWrites, userWrites,
                   redeliveries, failures, healthVars, ranked, driverWrites,
                   metricsRun, scans, logging>>

\* The samples of a run, every one stamped with the `now` taken at its start.
MetricsSamples(onTime, delivered, openDisputes, at) ==
    <<[name |-> "orders.status.delivered", value |-> delivered, time |-> at],
      [name |-> "orders.on_time_rate", value |-> onTimeRate(onTime, delivered),
       time |-> at],
      [name |-> "disputes.open", value |-> openDisputes, time |-> at]>>

PushPerSample(samples) ==
    [i \in 1..Len(samples) |-> [channel |-> "metrics", samples |-> <<samples[i]>>]]

\* fetch(grafanaUrl/graphite/metrics) with body JSON.stringify(metrics)
MetricsPushes(samples) == <<[channel |-> "metrics", samples |-> samples]>>

\* One scheduled run, all of it: the configuration check, the reads of the
\* store, the push; `response` is how the sink answers.  The counts the
\* reads return are drawn.
pushMetrics ==
    /\ \E configured \in BOOLEAN, readable \in BOOLEAN,
          response \in {"ok", "rejected", "failed"},
          delivered \in 0..MaxSampled, onTime \in 0..MaxSampled :
          /\ onTime <= delivered
          /\ IF configured /\ readable
             THEN /\ metricsRun' =
                        [at |-> now, configured |-> TRUE, read |-> TRUE,
                         counts |-> <<onTime, delivered>>,
                         pushes |-> MetricsPushes(
                                       MetricsSamples(onTime, delivered, disputes, now)),
                         response |-> response, ok |-> TRUE]
             ELSE /\ response = "ok" /\ onTime = 0 /\ delivered = 0
                  /\ configured => ~readable
                  /\ metricsRun' = [NoMetricsRun EXCEPT !.at = now,
                                                        !.configured = configured]
          /\ last' = Outcome("pushMetrics", NULL, metricsRun'.ok, NoDoc, NoDoc, 0, NULL)
    /\ UNCHANGED <<orders, drivers, users, activityLogs, notifications, orderEvents,
                   userEvents, matcher, matchCalls, orderWrites, userWrites,
                   redeliveries, failures, healthVars, ranked, driverWrites,
                   computed, scans, logging>>

NextRates ==
    \/ ScanDrivers
    \/ ScanDeliveries

SpecRates == Init /\ [][NextRates]_vars

AdvanceSteps == {10, 21}

\* MetricsAggregator on its own: the clock and the scheduled runs.
NextMetrics ==
    \/ \E dt \in AdvanceSteps : Advance(dt)
    \/ pushMetrics

SpecMetrics == Init /\ [][NextMetrics]_vars

\* --------------------------------------------------------- LoggingService
maxBufferSize == 20
maxRetryBuffer == 100
MAX_EVENTS_PER_BATCH == 100

\* logMobileEvents: the status it answers to a batch of `count` events that
\* carries the API key.
logMobileEvents(count) ==
    IF count = 0 \/ count > MAX_EVENTS_PER_BATCH THEN 400 ELSE 200

\* flush(): the whole buffer goes into one request; `held` is the size the
\* buffer had, `sent` the size of the batch.
Flushed(l, count) ==
    [buffer |-> 0, inFlight |-> Append(l.inFlight, count), held |-> count,
     sent |-> count]

\* the completion handler of a request that failed
Rebuffered(l, entries) ==
    LET remaining == maxRetryBuffer - l.buffer
    IN IF remaining > 0 THEN l.buffer + Min(entries, remaining) ELSE l.buffer

RemoveAt(seq, i) == SubSeq(seq, 1, i - 1) \o SubSeq(seq, i + 1, Len(seq))

\* log(): addToBuffer on the serial queue.
LogEvent ==
    /\ LET count == logging.buffer + 1
       IN IF count >= maxBufferSize
          THEN /\ Len(logging.inFlight) < MaxInFlight
               /\ logging' = Flushed(logging, count)
          ELSE logging' = [logging EXCEPT !.buffer = count, !.held = count, !.sent = 0]
    /\ last' = Outcome("log", NULL, TRUE, NoDoc, NoDoc, logging'.sent, NULL)
    /\ UNCHANGED <<orders, drivers, users, activityLogs, notifications, orderEvents,
                   userEvents, matcher, matchCalls, orderWrites, userWrites,
                   redeliveries, failures, healthVars, ranked, driverWrites,
                   computed, metricsRun, scans>>

\* The flush timer fires, or the application resigns being active.
TimerFlush ==
    /\ logging.buffer > 0
    /\ Len(logging.inFlight) < MaxInFlight
    /\ logging' = Flushed(logging, logging.buffer)
    /\ last' = Outcome("flush", NULL, TRUE, NoDoc, NoDoc, logging'.sent, NULL)
    /\ UNCHANGED <<orders, drivers, users, activityLogs, notifications, orderEvents,
                   userEvents, matcher, matchCalls, orderWrites, userWrites,
                   redeliveries, failures, healthVars, ranked, driverWrites,
                   computed, metricsRun, scans>>

\* A request completes: the endpoint answers, or it cannot be reached or
\* served (network error, 401, 503, 500).
RequestCompletes ==
    /\ \E i \in 1..Len(logging.inFlight), served \in BOOLEAN :
          LET entries == logging.inFlight[i]
              status == IF served THEN logMobileEvents(entries) ELSE 503
              buffer == IF status >= 400 THEN Rebuffered(logging, entries)
                        ELSE logging.buffer
          IN /\ logging' = [buffer |-> buffer,
                            inFlight |-> RemoveAt(logging.inFlight, i),
                            held |-> buffer, sent |-> 0]
             /\ last' = Outcome("requestCompletes", NULL, status < 400, NoDoc, NoDoc,
                                status, NULL)
    /\ UNCHANGED <<orders, drivers, users, activityLogs, notifications, orderEvents,
                   userEvents, matcher, matchCalls, orderWrites, userWrites,
                   redeliveries, failures, healthVars, ranked, driverWrites,
                   computed, metricsRun, scans>>

NextLogging ==
    \/ LogEvent
    \/ TimerFlush
    \/ RequestCompletes

SpecLogging == Init /\ [][NextLogging]_vars

\* HealthMonitor on its own: the clock, the backlog and the scheduled runs.

NextHealth ==
    \/ \E dt \in AdvanceSteps : Advance(dt)
    \/ SetBacklog
    \/ HealthCheckRun

SpecHealth == Init /\ [][NextHealth]_vars

\* Invocations of healthCheck that overlap, while more disputes are open than
\* the threshold.
InitOverlap ==
    /\ orders = [o \in OrderIds |-> NoDoc]
    /\ drivers = [d \in DriverIds |->
                    IF d = "d1" THEN OnlineDriver(101, 45, 50, 1) ELSE NoDoc]
    /\ users = [d \in DriverIds |->
                    IF d = "d1" THEN Profile("driver", "n1", "e1", "p1") ELSE NoDoc]
    /\ activityLogs = EmptyBag
    /\ notifications = EmptyBag
    /\ orderEvents = [o \in OrderIds |-> <<>>]
    /\ userEvents = [d \in DriverIds |-> <<>>]
    /\ matcher = [o \in OrderIds |-> Idle]
    /\ matchCalls = [o \in OrderIds |-> 0]
    /\ orderWrites = 0
    /\ userWrites = 0
    /\ redeliveries = 0
    /\ failures = 0
    /\ last = Outcome("init", NULL, TRUE, NoDoc, NoDoc, 0, NULL)
    /\ now = 0
    /\ disputes = DISPUTES_THRESHOLD + 1
    /\ verifications = KYC_THRESHOLD
    /\ changedAt = 0
    /\ alertHistory = EmptyBag
    /\ emitted = EmptyBag
    /\ lastRun = NoRun
    /\ ranked = NoRanking
    /\ driverWrites = <<>>
    /\ computed = NothingComputed
    /\ metricsRun = NoMetricsRun
    /\ scans = [r \in RunIds |-> NoScan]
    /\ logging = NoLogging

NextOverlap ==
    \/ \E dt \in AdvanceSteps : Advance(dt)
    \/ \E r \in RunIds : healthCheckScan(r)
    \/ \E r \in RunIds : healthCheckDeliver(r)

SpecOverlap == InitOverlap /\ [][NextOverlap]_vars

\* ------------------------------------------------------------------ claims
StatusChangeHandled(l) ==
    l.op = "onOrderStatusChange" /\ l.before.status # l.after.status

\* C1: under any interleaving of autoAssignDriver passes for different orders
\* no driver ends up recorded on two orders (checked under SpecMatch, where
\* only a matching pass writes an order's driver).
C1_NoDoubleBooking ==
    \A a, b \in OrderIds :
        (a # b /\ orders[a].exists /\ orders[b].exists /\ orders[a].driverId # NULL)
            => orders[a].driverId # orders[b].driverId

\* C2: right after onOrderStatusChange has committed the transition of an
\* order into delivered or cancelled, with no matching pass in flight for it,
\* no driver record has currentOrderId equal to that order; whatever the
\* earlier updates did to the order's driver id.
C2_TerminalOrderHoldsNoDriver ==
    (StatusChangeHandled(last) /\ last.ok /\ last.after.status \in Terminal
        /\ matcher[last.id].pc = "idle")
    => \A d \in DriverIds :
          drivers[d].exists => drivers[d].currentOrderId # last.id

\* C3: a driver whose currentOrderId is non-null has status busy.
C3_ClaimedDriverIsBusy ==
    \A d \in DriverIds :
        (drivers[d].exists /\ drivers[d].currentOrderId # NULL)
            => drivers[d].status = "busy"

\* C4: right after onOrderStatusChange has committed a transition into
\* delivered or cancelled of an order that carries a driver id, that driver has
\* currentOrderId null, isAvailable true and status online.
C4_DriverReleased ==
    (StatusChangeHandled(last) /\ last.ok
        /\ last.after.status \in Terminal /\ last.after.driverId # NULL)
    => LET d == drivers[last.after.driverId]
       IN d.exists /\ d.currentOrderId = NULL /\ d.isAvailable /\ d.status = "online"

C4_Witness ==
    /\ StatusChangeHandled(last) /\ last.ok
    /\ last.after.status \in Terminal /\ last.after.driverId # NULL
    /\ orders[last.id].driverId = last.after.driverId

\* C5: onOrderStatusChange writes nothing when the before and after snapshots
\* have the same status, whatever else differs.
C5_NoWriteOnSameStatus ==
    [][(last'.op = "onOrderStatusChange" /\ last'.before.status = last'.after.status)
        => UNCHANGED <<orders, drivers, activityLogs, notifications>>]_vars

C5_Witness ==
    /\ last.op = "onOrderStatusChange"
    /\ last.before.status = last.after.status
    /\ last.before.driverId # last.after.driverId

\* C6: a status change whose before status is delivered or cancelled is
\* rejected: the handler applies no side effect for it.
C6_TerminalIsFinal ==
    [][(StatusChangeHandled(last') /\ last'.before.status \in Terminal)
        => UNCHANGED <<drivers, activityLogs, notifications>>]_vars

\* C7: the second of two deliveries of one status-change event, the first of
\* which committed, changes neither the activity log nor the notifications nor
\* the drivers.
C7_RedeliveryChangesNothing ==
    [][(/\ StatusChangeHandled(last') /\ last'.n >= 1
        /\ StatusChangeHandled(last) /\ last.ok
        /\ last.id = last'.id /\ last.before = last'.before /\ last.after = last'.after)
        => UNCHANGED <<drivers, activityLogs, notifications>>]_vars

\* C8: the writes of one transition are committed together or not at all: a
\* handled status change either commits one log entry, every notification of
\* the transition and the driver release, or changes nothing and fails; it
\* fails when the driver to release has no record.
C8_AllOrNothing ==
    [][StatusChangeHandled(last') =>
        LET b == last'.before
            a == last'.after
            release == a.status \in Terminal /\ a.driverId # NULL
            notes == 1 + (IF a.status \in Terminal THEN 1 ELSE 0)
                       + (IF release THEN 1 ELSE 0)
                       + (IF a.status = "shipped" /\ a.driverId # NULL
                             /\ b.driverId = NULL THEN 1 ELSE 0)
        IN /\ \/ /\ last'.ok
                 /\ BagCardinality(activityLogs') = BagCardinality(activityLogs) + 1
                 /\ BagCardinality(notifications') = BagCardinality(notifications) + notes
                 /\ release => drivers'[a.driverId].currentOrderId = NULL
              \/ /\ ~last'.ok
                 /\ UNCHANGED <<orders, drivers, activityLogs, notifications>>
           /\ (release /\ ~drivers[a.driverId].exists) => ~last'.ok]_vars

C8_Witness ==
    /\ StatusChangeHandled(last) /\ ~last.ok
    /\ last.after.status \in Terminal /\ last.after.driverId # NULL
    /\ ~drivers[last.after.driverId].exists

\* C9: every run of onOrderCreated invokes autoAssignDriver for its order.
C9_CreationStartsMatching ==
    [][last'.op = "onOrderCreated"
        => matchCalls'[last'.id] = matchCalls[last'.id] + 1]_vars

C11_OncePerWindow ==
    \A id \in AlertIds :
        LET calls == {e \in BagToSet(emitted) :
                        e.channel = "webhook" /\ id \in e.ids /\ e.at >= changedAt}
            records == {h \in BagToSet(alertHistory) : h.alertId = id /\ h.sentAt >= changedAt}
        IN /\ \A e \in calls : CopiesIn(e, emitted) = 1
           /\ \A e1, e2 \in calls :
                 e1 # e2 => (e1.at - e2.at >= 30 \/ e2.at - e1.at >= 30)
           /\ \A h1, h2 \in records :
                 h1 # h2 => (h1.sentAt - h2.sentAt >= 30 \/ h2.sentAt - h1.sentAt >= 30)

\* C12: at a run where a rule's condition holds, the alert survives exactly
\* when no alertHistory record of its identifier is at most 30 minutes old: a
\* run 31 minutes after the last record emits it again, once (one history
\* record, one admin notification per surviving alert, one webhook call); a
\* run 10 minutes after emits nothing for it.
C12_ReemitAfterWindow ==
    [][last'.op = "healthCheck" =>
        /\ \A id \in lastRun'.alerts :
              LET recent == \E h \in BagToSet(alertHistory) :
                               h.alertId = id /\ now - h.sentAt <= 30
                  newRecords == {h \in BagToSet(alertHistory' (-) alertHistory) : h.alertId = id}
                  newCalls == {e \in BagToSet(emitted') :
                                 /\ e.channel = "webhook" /\ id \in e.ids
                                 /\ CopiesIn(e, emitted') > CopiesIn(e, emitted)}
              IN IF recent
                 THEN id \notin lastRun'.newAlerts /\ newRecords = {} /\ newCalls = {}
                 ELSE /\ id \in lastRun'.newAlerts
                      /\ lastRun'.committed =>
                            newRecords = {[alertId |-> id, sentAt |-> now]}
                      /\ lastRun'.webhook = "sent" =>
                            /\ Cardinality(newCalls) = 1
                            /\ \A e \in newCalls :
                                  CopiesIn(e, emitted') = CopiesIn(e, emitted) + 1
        /\ lastRun'.committed =>
              BagCardinality(notifications') =
                  BagCardinality(notifications) + Cardinality(lastRun'.newAlerts)
        /\ ~lastRun'.committed => notifications' = notifications]_vars

C12_Witness ==
    /\ last.op = "healthCheck" /\ lastRun.committed
    /\ "high-disputes" \in lastRun.newAlerts
    /\ [alertId |-> "high-disputes", sentAt |-> now] \in BagToSet(alertHistory)
    /\ [alertId |-> "high-disputes", sentAt |-> now - 31] \in BagToSet(alertHistory)

\* C13: in a run with a surviving alert, the history records of the run are
\* written whenever the store accepts the commit, also when the webhook call
\* failed; and a failed push finds them written.
C13_HistoryDespiteFailures ==
    [][(last'.op = "healthCheck" /\ lastRun'.newAlerts # {}
          /\ (lastRun'.reachable \/ lastRun'.push = "failed"))
        => \A id \in lastRun'.newAlerts :
              [alertId |-> id, sentAt |-> now] \in BagToSet(alertHistory')]_vars

C13_Witness ==
    /\ last.op = "healthCheck" /\ lastRun.webhook = "failed"
    /\ lastRun.newAlerts # {}
    /\ \A id \in lastRun.newAlerts : [alertId |-> id, sentAt |-> now] \in BagToSet(alertHistory)


\* Number of notifications of a type in a bag, and of those for one target.
Notes(bag, type) ==
    BagCardinality([e \in {x \in BagToSet(bag) : x.type = type} |-> bag[e]])

NotesFor(bag, type, target) ==
    BagCardinality([e \in {x \in BagToSet(bag) : x.type = type /\ x.target = target}
                      |-> bag[e]])

\* C14: a committed status change emits exactly one New Delivery Assignment
\* notification, to the driver of the after snapshot, when the new status is
\* shipped and the driver id is in after but not in before; it emits none
\* otherwise, in particular when before already carries the driver.
C14_AssignmentNotifiedOnce ==
    [][(StatusChangeHandled(last') /\ last'.ok) =>
        LET b == last'.before
            a == last'.after
            added == Notes(notifications', "delivery_assignment")
                       - Notes(notifications, "delivery_assignment")
        IN IF a.status = "shipped" /\ a.driverId # NULL /\ b.driverId = NULL
           THEN /\ added = 1
                /\ NotesFor(notifications', "delivery_assignment", a.driverId)
                     = NotesFor(notifications, "delivery_assignment", a.driverId) + 1
           ELSE added = 0]_vars

C14_Witness ==
    /\ StatusChangeHandled(last) /\ last.ok
    /\ last.after.status = "shipped" /\ last.after.driverId # NULL
    /\ last.before.driverId = NULL
    /\ NotesFor(notifications, "delivery_assignment", last.after.driverId) = 1

\* C15: a committed status change emits exactly one activity-log entry, which
\* records the old and the new status, and exactly one order_update
\* notification, addressed to the customer of the order.
C15_LogAndCustomerNotice ==
    [][(StatusChangeHandled(last') /\ last'.ok) =>
        LET b == last'.before
            a == last'.after
            entry == [entityId |-> last'.id, type |-> "order_updated",
                      oldStatus |-> b.status, newStatus |-> a.status,
                      driverId |-> a.driverId]
        IN /\ BagCardinality(activityLogs') = BagCardinality(activityLogs) + 1
           /\ CopiesIn(entry, activityLogs') = CopiesIn(entry, activityLogs) + 1
           /\ Notes(notifications', "order_update")
                = Notes(notifications, "order_update") + 1
           /\ NotesFor(notifications', "order_update", a.userId)
                = NotesFor(notifications, "order_update", a.userId) + 1]_vars

C15_Witness ==
    /\ StatusChangeHandled(last) /\ last.ok
    /\ last.before.status = "paid" /\ last.after.status = "confirmed"
    /\ NotesFor(notifications, "order_update", Customer) >= 1
    /\ BagCardinality(activityLogs) >= 1

\* C16: a committed status change emits exactly one admin notification when
\* the new status is cancelled (a warning) or delivered (a success) and none
\* for any other new status; from shipped to delivered with the same driver on
\* both sides it emits one admin, one customer and one driver completion
\* notification and no assignment notification.
C16_AdminNotifiedOnEnd ==
    [][(StatusChangeHandled(last') /\ last'.ok) =>
        LET b == last'.before
            a == last'.after
            Added(type, target) == NotesFor(notifications', type, target)
                                     - NotesFor(notifications, type, target)
            admin == Added("warning", "admin") + Added("success", "admin")
                       + Added("info", "admin") + Added("alert", "admin")
        IN /\ a.status = "cancelled" => (admin = 1 /\ Added("warning", "admin") = 1)
           /\ a.status = "delivered" => (admin = 1 /\ Added("success", "admin") = 1)
           /\ a.status \notin Terminal => admin = 0
           /\ (b.status = "shipped" /\ a.status = "delivered"
                 /\ a.driverId # NULL /\ b.driverId = a.driverId)
              => /\ Added("order_update", a.userId) = 1
                 /\ Added("delivery_update", a.driverId) = 1
                 /\ Notes(notifications', "delivery_assignment")
                      = Notes(notifications, "delivery_assignment")
                 /\ BagCardinality(notifications') = BagCardinality(notifications) + 3]_vars

C16_Witness ==
    /\ StatusChangeHandled(last) /\ last.ok
    /\ last.before.status = "shipped" /\ last.after.status = "delivered"
    /\ last.after.driverId # NULL /\ last.before.driverId = last.after.driverId
    /\ NotesFor(notifications, "success", "admin") = 1

\* C17: a committed onOrderCreated leaves the order with the single
\* 'Order created' entry as its timeline when the created order's timeline is
\* absent or empty, and does not change the order record when the created
\* order has a non-empty timeline; a failed one changes nothing.
C17_TimelineInitialisedIfMissing ==
    [][last'.op = "onOrderCreated" =>
        LET t == last'.after.timeline
        IN IF last'.ok /\ (t = {} \/ t = {<<>>})
           THEN orders' = [orders EXCEPT ![last'.id].timeline = {<<"Order created">>}]
           ELSE orders' = orders]_vars

C17_Witness ==
    /\ last.op = "onOrderCreated" /\ last.ok
    /\ last.after.timeline = {<<"Existing">>}
    /\ orders[last.id].timeline = {<<"Existing">>}


\* The drivers a ranking around `pickup` may return, stated on the records.
EligibleIds(pickup) ==
    {d \in DOMAIN drivers :
        /\ drivers[d].exists
        /\ drivers[d].status = "online"
        /\ drivers[d].location # <<>>
        /\ drivers[d].currentOrderId = NULL
        /\ drivers[d].location[1] - pickup <= 10
        /\ pickup - drivers[d].location[1] <= 10}

InputPosition(d) == CHOOSE i \in 1..Len(DriverOrder) : DriverOrder[i] = d

\* C18: every candidate findBestDrivers returns is eligible (on line, with a
\* location, without a current order, at most 10 km from the pickup) and
\* carries its distance; with no eligible driver the result is the empty
\* sequence.
C18_OnlyEligibleReturned ==
    [][last'.op = "findBestDrivers" =>
        LET r == ranked'.result
        IN /\ \A i \in 1..Len(r) :
                 /\ r[i].driver \in EligibleIds(ranked'.pickup)
                 /\ r[i].distance <= 10
                 /\ r[i].distance \in
                       {drivers[r[i].driver].location[1] - ranked'.pickup,
                        ranked'.pickup - drivers[r[i].driver].location[1]}
           /\ EligibleIds(ranked'.pickup) = {} => r = <<>>]_vars

C18_Witness ==
    /\ last.op = "findBestDrivers"
    /\ Len(ranked.result) = 1
    /\ \E d \in DOMAIN drivers :
          /\ drivers[d].exists /\ drivers[d].currentOrderId # NULL
          /\ drivers[d].status = "online"
    /\ \E d \in DOMAIN drivers :
          /\ drivers[d].exists /\ drivers[d].location # <<>>
          /\ drivers[d].location[1] - ranked.pickup > 10

\* C19: the result of findBestDrivers holds min(maxResults, n) of the n
\* eligible drivers, each once, in descending order of score, equal scores in
\* the order of the input; no eligible driver left out has a higher score
\* than one returned.
C19_BestFirstStable ==
    [][last'.op = "findBestDrivers" =>
        LET r == ranked'.result
            eligible == EligibleIds(ranked'.pickup)
            n == Cardinality(eligible)
            returned == {r[i].driver : i \in 1..Len(r)}
            Score(d) == scoreCandidate(haversineDistance(ranked'.pickup,
                                           drivers[d].location[1]), drivers[d])
        IN /\ Len(r) = (IF ranked'.maxResults <= n THEN ranked'.maxResults ELSE n)
           /\ Cardinality(returned) = Len(r)
           /\ returned \subseteq eligible
           /\ \A i \in 1..Len(r) : r[i].score = Score(r[i].driver)
           /\ \A i, j \in 1..Len(r) :
                 i < j => \/ r[i].score > r[j].score
                          \/ /\ r[i].score = r[j].score
                             /\ InputPosition(r[i].driver) < InputPosition(r[j].driver)
           /\ \A d \in eligible \ returned :
                 \A i \in 1..Len(r) :
                    \/ Score(d) < r[i].score
                    \/ /\ Score(d) = r[i].score
                       /\ InputPosition(r[i].driver) < InputPosition(d)]_vars

C19_Witness ==
    /\ last.op = "findBestDrivers"
    /\ ranked.maxResults = 2 /\ Len(ranked.result) = 2
    /\ Cardinality(EligibleIds(ranked.pickup)) = 3
    /\ ranked.result[1].score = ranked.result[2].score
    /\ drivers[ranked.result[1].driver] # drivers[ranked.result[2].driver]

\* C20: autoAssignDriver writes nothing and returns none when findBestDrivers
\* finds nobody; otherwise it makes one driver-claim write and one order
\* write, both for the top-ranked candidate, and returns that driver.
C20_AssignsTopCandidateOnce ==
    [][/\ last'.op = "autoAssignQuery" =>
            LET o == last'.id
                eligible == EligibleIds(PickupKm(o))
                Score(d) == scoreCandidate(haversineDistance(PickupKm(o),
                                               drivers[d].location[1]), drivers[d])
            IN /\ UNCHANGED <<orders, drivers>>
               /\ IF eligible = {}
                  THEN last'.driver = NULL /\ matcher'[o].pc = "idle"
                  ELSE /\ matcher'[o] = [pc |-> "claim", driver |-> last'.driver]
                       /\ last'.driver \in eligible
                       /\ \A d \in eligible \ {last'.driver} :
                             \/ Score(d) < Score(last'.driver)
                             \/ /\ Score(d) = Score(last'.driver)
                                /\ InputPosition(last'.driver) < InputPosition(d)
       /\ (last'.op = "autoAssignClaim" /\ last'.ok) =>
            LET d == matcher[last'.id].driver
            IN /\ last'.driver = d
               /\ drivers' = [drivers EXCEPT ![d].currentOrderId = last'.id,
                                             ![d].status = "busy",
                                             ![d].isAvailable = FALSE]
               /\ orders' = orders
               /\ matcher'[last'.id] = [pc |-> "order", driver |-> d]
       /\ (last'.op = "autoAssignOrder" /\ last'.ok) =>
            LET d == matcher[last'.id].driver
            IN /\ last'.driver = d
               /\ orders' = [orders EXCEPT ![last'.id].driverId = d]
               /\ drivers' = drivers
               /\ drivers[d].currentOrderId = last'.id
               /\ matcher'[last'.id].pc = "idle"]_vars

C20_Witness ==
    /\ last.op = "autoAssignOrder" /\ last.ok
    /\ orders[last.id].driverId = last.driver
    /\ drivers[last.driver].currentOrderId = last.id
    /\ \E d \in DOMAIN drivers :
          /\ d # last.driver /\ drivers[d].exists
          /\ drivers[d].status = "online" /\ drivers[d].currentOrderId = NULL
          /\ drivers[d].location \in {<<101>>, <<103>>, <<110>>}


SyncHandled(l) == l.op = "onUserWriteSyncDriver"

LeavesDrivers(b, a) == Role(b) = "driver" /\ (~a.exists \/ Role(a) # "driver")

\* C21: DriverProfileSync issues no write for an event of a user who is not
\* a driver after the change and was not one before it, creation and
\* deletion of such a user included.
C21_NonDriverUntouched ==
    [][(SyncHandled(last') /\ Role(last'.before) # "driver"
          /\ Role(last'.after) # "driver")
        => (driverWrites' = <<>> /\ drivers' = drivers)]_vars

C21_Witness ==
    /\ SyncHandled(last) /\ Role(last.before) = "user" /\ ~last.after.exists
    /\ drivers[last.id].exists /\ drivers[last.id].status = "online"
    /\ driverWrites = <<>>

\* C22: when a user who was a driver is deleted or leaves the driver role,
\* the existing driver record gets status offline and isAvailable false and
\* is otherwise unchanged (it stays, with its rating and completedDeliveries);
\* without a driver record nothing is written.
C22_SoftDeactivation ==
    [][(SyncHandled(last') /\ LeavesDrivers(last'.before, last'.after)) =>
        LET u == last'.id
        IN IF drivers[u].exists
           THEN /\ Len(driverWrites') = 1
                /\ driverWrites'[1].op = "update"
                /\ drivers'[u] = IF driverWrites'[1].applied
                                 THEN [drivers[u] EXCEPT !.status = "offline",
                                                         !.isAvailable = FALSE]
                                 ELSE drivers[u]
                /\ drivers'[u].exists
                /\ drivers'[u].rating10 = drivers[u].rating10
                /\ drivers'[u].completedDeliveries = drivers[u].completedDeliveries
           ELSE driverWrites' = <<>> /\ drivers' = drivers]_vars

C22_Witness ==
    /\ SyncHandled(last) /\ LeavesDrivers(last.before, last.after)
    /\ Len(driverWrites) = 1 /\ driverWrites[1].applied
    /\ drivers[last.id].status = "offline" /\ ~drivers[last.id].isAvailable
    /\ drivers[last.id].rating10 = 45 /\ drivers[last.id].currentOrderId = "o1"

\* C23: for a user with role driver whose driver record exists, the handler
\* patches exactly those of name, email and phone that differ between the
\* user profile and the driver record (no write when none differs), and once
\* the write is applied the three fields of the driver equal the profile's.
C23_ProfileFieldsSynced ==
    [][(SyncHandled(last') /\ Role(last'.after) = "driver"
          /\ drivers[last'.id].exists) =>
        LET u == last'.id
            differing == {f \in {"name", "email", "phone"} :
                             last'.after[f] # drivers[u][f]}
        IN IF differing = {}
           THEN driverWrites' = <<>> /\ drivers' = drivers
           ELSE /\ Len(driverWrites') = 1
                /\ DOMAIN driverWrites'[1].data = differing
                /\ driverWrites'[1].applied =>
                      \A f \in {"name", "email", "phone"} :
                          drivers'[u][f] = last'.after[f]]_vars

C25_NewDriverDefaults ==
    [][(SyncHandled(last') /\ Role(last'.after) = "driver"
          /\ ~drivers[last'.id].exists) =>
        LET u == last'.id
        IN /\ Len(driverWrites') = 1 /\ driverWrites'[1].op = "set"
           /\ IF driverWrites'[1].applied
              THEN /\ drivers'[u].exists
                   /\ drivers'[u].status = "offline"
                   /\ ~drivers'[u].isAvailable
                   /\ drivers'[u].currentOrderId = NULL
                   /\ drivers'[u].rating10 = 50
                   /\ drivers'[u].completedDeliveries = 0
                   /\ drivers'[u].vehicleType = "bike"
                   /\ drivers'[u].location = <<0>>
                   /\ \A pickup \in {0, 100, 102} :
                         LET r == findBestDrivers(drivers', pickup, 5)
                         IN \A i \in 1..Len(r) : r[i].driver # u
              ELSE drivers' = drivers]_vars

C25_Witness ==
    /\ SyncHandled(last) /\ Role(last.after) = "driver"
    /\ Len(driverWrites) = 1 /\ driverWrites[1].op = "set" /\ driverWrites[1].applied
    /\ drivers[last.id].exists /\ drivers[last.id].status = "offline"
    /\ drivers[last.id].name = last.after.name

\* C26: an invocation of DriverProfileSync one of whose store writes failed
\* does not complete normally: it fails, so that the dispatcher retries it.
C26_WriteFailureSurfaced ==
    [][(SyncHandled(last') /\ \E i \in 1..Len(driverWrites') : ~driverWrites'[i].applied)
        => ~last'.ok]_vars


\* C27: the driver-overload warning is raised exactly when there is a driver
\* on line or busy and busy / (online + busy) is strictly above 90%.
C27_OverloadAboveNinety ==
    computed.what = "driverRules" =>
        LET online == computed.args[2]
            busy == computed.args[3]
        IN ("driver-overload" \in computed.value)
             <=> (online + busy > 0 /\ 10 * busy > 9 * (online + busy))

\* C28: the low-delivery-rate warning is raised exactly when more than 5
\* orders are delivered and the on-time fraction is strictly below 80%.
C28_LowRateBelowEighty ==
    computed.what = "deliveryRule" =>
        LET onTime == computed.args[1]
            delivered == computed.args[2]
        IN ("low-delivery-rate" \in computed.value)
             <=> (delivered > 5 /\ 5 * onTime < 4 * delivered)

\* C29: the no-drivers-online alert is raised exactly when a driver record
\* exists and no driver is on line or busy, and never together with the
\* driver-overload warning.
C29_NoDriversExactly ==
    computed.what = "driverRules" =>
        LET total == computed.args[1]
            online == computed.args[2]
            busy == computed.args[3]
        IN /\ ("no-drivers-online" \in computed.value)
                <=> (total >= 1 /\ online = 0 /\ busy = 0)
           /\ ~({"no-drivers-online", "driver-overload"} \subseteq computed.value)

C29_Witness ==
    /\ computed.what = "driverRules"
    /\ computed.args = <<3, 0, 0>>
    /\ computed.value = {"no-drivers-online"}

\* C30: the on_time_rate sample is 100 when no order is delivered, and else
\* the percentage of on-time orders among the delivered rounded to the
\* nearest integer, within 0..100.
C30_OnTimeRateSample ==
    \A i \in 1..Len(metricsRun.pushes) :
        LET samples == metricsRun.pushes[i].samples
            onTime == metricsRun.counts[1]
            delivered == metricsRun.counts[2]
        IN \A k \in 1..Len(samples) :
              samples[k].name = "orders.on_time_rate" =>
                 \E v \in 0..100 :
                    /\ samples[k].value = v
                    /\ IF delivered = 0 THEN v = 100
                       ELSE /\ 2 * v * delivered <= 200 * onTime + delivered
                            /\ 200 * onTime + delivered < 2 * (v + 1) * delivered

C30_Witness ==
    /\ metricsRun.counts = <<0, 0>>
    /\ \E i \in 1..Len(metricsRun.pushes) :
          \E k \in 1..Len(metricsRun.pushes[i].samples) :
             /\ metricsRun.pushes[i].samples[k].name = "orders.on_time_rate"
             /\ metricsRun.pushes[i].samples[k].value = 100

\* C31: a pushMetrics run makes at most one push, which carries all the
\* samples of the run under one timestamp; when a read of the store or the
\* push fails there is no second or partial push, and the run still ends
\* normally.
C31_OnePushPerRun ==
    metricsRun.at >= 0 =>
        /\ Len(metricsRun.pushes) <= 1
        /\ metricsRun.read => Len(metricsRun.pushes) = 1
        /\ ~metricsRun.read => metricsRun.pushes = <<>>
        /\ \A i \in 1..Len(metricsRun.pushes) :
              LET samples == metricsRun.pushes[i].samples
              IN /\ {samples[k].name : k \in 1..Len(samples)}
                      = {"orders.status.delivered", "orders.on_time_rate",
                         "disputes.open"}
                 /\ \A k \in 1..Len(samples) : samples[k].time = metricsRun.at
        /\ metricsRun.ok
        /\ last.op = "pushMetrics" => last.ok

C31_Witness ==
    /\ metricsRun.at > 0
    /\ metricsRun.response = "rejected"
    /\ Len(metricsRun.pushes) = 1
    /\ last.op = "pushMetrics"


\* The admin notifications that carry an alert identifier as their title.
AlertNotes(bag, id) ==
    BagCardinality([e \in {x \in BagToSet(bag) : x.target = "admin" /\ x.title = id}
                      |-> bag[e]])

\* C32: a health-check run whose commit succeeds leaves exactly one admin
\* notification and one alertHistory record per surviving alert, all from one
\* batch (a commit that fails leaves none of them), and a webhook that is
\* configured is called once with all of them; a run with no alert, or with
\* duplicates only, writes nothing, calls no webhook and pushes nothing.
C32_OneBatchPerRun ==
    [][last'.op = "healthCheck" =>
        LET new == lastRun'.newAlerts
            calls == emitted' (-) emitted
        IN IF new = {}
           THEN UNCHANGED <<notifications, alertHistory, emitted>>
           ELSE /\ BagCardinality(calls)
                     = (IF lastRun'.webhook = "sent" THEN 1 ELSE 0)
                       + (IF lastRun'.committed /\ lastRun'.push = "sent" THEN 1 ELSE 0)
                /\ \A c \in BagToSet(calls) : c.ids = new /\ c.at = now
                /\ IF lastRun'.committed
                   THEN /\ \A id \in AlertIds :
                              AlertNotes(notifications', id) =
                                 AlertNotes(notifications, id)
                                    + (IF id \in new THEN 1 ELSE 0)
                        /\ BagCardinality(notifications') =
                              BagCardinality(notifications) + Cardinality(new)
                        /\ alertHistory' (-) alertHistory = SetToBag(
                              {[alertId |-> id, sentAt |-> now] : id \in new})
                        /\ alertHistory \sqsubseteq alertHistory'
                   ELSE UNCHANGED <<notifications, alertHistory>>]_vars

C32_Witness ==
    /\ last.op = "healthCheck"
    /\ lastRun.newAlerts = {"high-disputes", "kyc-backlog"}
    /\ lastRun.committed /\ lastRun.webhook = "sent"
    /\ AlertNotes(notifications, "high-disputes") = 1
    /\ AlertNotes(notifications, "kyc-backlog") = 1

\* C33: a run that delivers alerts to the webhook also records them in alert
\* history: when the commit of notifications and history fails, nothing of
\* the run has reached the webhook.
C33_WebhookOnlyIfRecorded ==
    (last.op = "healthCheck" /\ lastRun.webhook = "sent" /\ lastRun.newAlerts # {})
        => \A id \in lastRun.newAlerts :
              [alertId |-> id, sentAt |-> lastRun.at] \in BagToSet(alertHistory)


\* C34: runs that overlap on a condition that persists do not both emit the
\* alert: no alertHistory record is written twice, and two records of one
\* identifier are more than 30 minutes apart.
C34_OverlapEmitsOnce ==
    \A h1 \in BagToSet(alertHistory) :
        /\ CopiesIn(h1, alertHistory) = 1
        /\ \A h2 \in BagToSet(alertHistory) :
              (h1 # h2 /\ h1.alertId = h2.alertId)
                 => (h1.sentAt - h2.sentAt > DEDUP_WINDOW_MIN
                        \/ h2.sentAt - h1.sentAt > DEDUP_WINDOW_MIN)


\* The order is there and neither delivered nor cancelled.
Active(o) == orders[o].exists /\ orders[o].status \notin Terminal

\* C35: the release made for a terminal transition of an order leaves alone a
\* driver who holds another order, one that is active: his currentOrderId
\* and his status are as before.
C35_ReleaseOnlyOwnClaim ==
    [][(StatusChangeHandled(last') /\ last'.ok /\ ReleasesDriver(last'.after))
        => LET d == last'.after.driverId
           IN (/\ drivers[d].exists
               /\ drivers[d].currentOrderId \in OrderIds \ {last'.id}
               /\ Active(drivers[d].currentOrderId))
              => /\ drivers'[d].currentOrderId = drivers[d].currentOrderId
                 /\ drivers'[d].status = drivers[d].status]_vars

\* A driver record that DriverProfileSync has deactivated: the user is
\* deleted or no driver any more, the record is offline and not available.
Deactivated(d) ==
    /\ Role(users[d]) # "driver"
    /\ userEvents[d] = <<>>
    /\ drivers[d].exists
    /\ drivers[d].status = "offline"
    /\ ~drivers[d].isAvailable

\* C36: no order event makes a deactivated driver online or available.
C36_DeactivatedStaysOffline ==
    [][last'.op = "onOrderStatusChange"
        => \A d \in DriverIds :
              Deactivated(d)
                 => drivers'[d].status = "offline" /\ ~drivers'[d].isAvailable]_vars


\* The New Delivery Assignment notifications sent to a driver for an order.
AssignmentNotes(bag, d, o) ==
    BagCardinality([e \in {x \in BagToSet(bag) :
                              /\ x.type = "delivery_assignment"
                              /\ x.target = d /\ x.orderId = o}
                      |-> bag[e]])

\* C37: once the transition of an order into shipped with a driver attached
\* is handled, that driver has received exactly one assignment notification
\* for the order, whether the driver was attached with the transition or by a
\* matching pass before it.
C37_ShippedDriverNotified ==
    [][(StatusChangeHandled(last') /\ last'.ok /\ last'.n = 0
          /\ last'.after.status = "shipped" /\ last'.after.driverId # NULL)
        => AssignmentNotes(notifications', last'.after.driverId, last'.id) = 1]_vars

\* C38: onOrderStatusChange changes a driver record only when the new status
\* is delivered or cancelled and the order carries a driver id, and then that
\* driver's record only; after every other transition the driver records are
\* as before.
C38_DriverWrittenOnEndOnly ==
    [][last'.op = "onOrderStatusChange" =>
        \A d \in DriverIds :
           drivers'[d] # drivers[d]
              => /\ last'.before.status # last'.after.status
                 /\ last'.after.status \in Terminal
                 /\ last'.after.driverId = d]_vars

C38_Witness ==
    /\ StatusChangeHandled(last) /\ last.ok
    /\ last.after.status = "shipped" /\ last.after.driverId = "d1"
    /\ drivers["d1"].currentOrderId = "o1" /\ drivers["d1"].status = "busy"


\* C39: the cascade of an order creation ends.  The update event that
\* onOrderCreated causes by initialising the timeline is handled by
\* onOrderStatusChange without any write, so that no event follows it; every
\* delivery of a creation event accounts for at most one pending event, one
\* activity-log entry and one notification, and in the end no event is
\* pending.
C39_CascadeEnds ==
    /\ [][last'.op = "onOrderStatusChange"
            => /\ UNCHANGED <<orders, drivers, activityLogs, notifications>>
               /\ \A o \in OrderIds : Len(orderEvents'[o]) <= Len(orderEvents[o])]_vars
    /\ [](/\ \A o \in OrderIds : Len(orderEvents[o]) <= 2 + redeliveries
          /\ BagCardinality(activityLogs) <= Cardinality(OrderIds) + redeliveries
          /\ BagCardinality(notifications) <= Cardinality(OrderIds) + redeliveries)
    /\ <>[](\A o \in OrderIds : orderEvents[o] = <<>>)

C39_Witness ==
    /\ last.op = "onOrderStatusChange"
    /\ last.before.timeline = NoTimeline
    /\ last.after.timeline = InitialTimeline
    /\ orderEvents[last.id] = <<>>
    /\ BagCardinality(activityLogs) = 1


\* C40: the LoggingService never holds more than 100 entries in its buffer
\* and never sends a batch of more than 100 events, the size above which
\* logMobileEvents answers 400.
C40_BufferAndBatchWithinLimit ==
    /\ logging.buffer <= maxRetryBuffer
    /\ logging.held <= maxRetryBuffer
    /\ logging.sent <= MAX_EVENTS_PER_BATCH
    /\ \A i \in 1..Len(logging.inFlight) :
          logging.inFlight[i] <= MAX_EVENTS_PER_BATCH

====
